---- MODULE Spec2Model ----
(***************************************************************************)
(* The in-memory virtual file system of the command-line challenge.        *)
(*                                                                         *)
(* Two implementations live in the repository:                             *)
(*   - the complete FileSystem (src/unnamed/part_000): a tree of           *)
(*     FileSystemNode objects with parent back-references, a cursor        *)
(*     currentDir, and the commands cd, ls, pwd, mkdir, mkdirp, touch, rm, *)
(*     rmdir and tree;                                                     *)
(*   - the reduced FileSystem of src/src/lib/fileSystem.js (cd, ls,        *)
(*     resolvePath, pwd over nodes without parent references), modelled    *)
(*     below with the prefix "lib".                                        *)
(*                                                                         *)
(* Strings.  The code looks at a string only through split('/'),           *)
(* startsWith('/'), join('/'), emptiness, and equality of whole segments   *)
(* (with '.', '..' and Map keys).  A string is therefore modelled as the   *)
(* sequence of its tokens, a token being either the separator "/" or a     *)
(* maximal run of characters other than '/'; two runs are never adjacent.  *)
(* The empty string is <<>>.                                               *)
(***************************************************************************)
EXTENDS Naturals, Integers, Sequences, FiniteSets, TLC

\* ------------------------------------------------------------------ bounds

\* longest argument string (in tokens) a command is called with
MaxLen == 3

\* number of nodes the commands may create on top of the seeded tree
MaxNew == 1

\* longest path (in tokens) the properties are evaluated on in each state
MaxQueryLen == 4

\* ----------------------------------------------------------------- strings

Slash == "/"

\* strings of at most n tokens over "/" and the given runs (no two runs
\* adjacent)
Strings(runs, n) ==
  { s \in UNION { [1..k -> {Slash} \cup runs] : k \in 0..n } :
      \A i \in 1..(Len(s) - 1) : s[i] # Slash => s[i + 1] = Slash }

\* the runs of non-'/' characters the commands of part_000 are called with:
\* the two special segments, a seeded directory and a seeded file
Runs == {".", "..", "thecmdchallenge", "the-ultimate-joke.txt"}

Paths == Strings(Runs, MaxLen)

\* the paths the properties quantify over in every reachable state
QueryPaths == Strings(Runs, MaxQueryLen)

\* the names mkdir and touch are called with: the empty string, "/", and
\* every single run
Names == Strings(Runs, 1)

\* String.prototype.startsWith('/')
StartsWithSlash(s) == Len(s) > 0 /\ s[1] = Slash

\* index of the first "/" of s, 0 when there is none
FirstSlash(s) ==
  IF \E i \in 1..Len(s) : s[i] = Slash
  THEN CHOOSE i \in 1..Len(s) : s[i] = Slash /\ \A j \in 1..(i - 1) : s[j] # Slash
  ELSE 0

\* String.prototype.split('/'): the segments between the separators, the
\* empty ones included (''.split('/') is [''])
RECURSIVE Split(_)
Split(s) ==
  LET i == FirstSlash(s) IN
    IF i = 0 THEN << s >>
    ELSE << SubSeq(s, 1, i - 1) >> \o Split(SubSeq(s, i + 1, Len(s)))

\* Array.prototype.filter(Boolean) on an array of strings: drops ''
FilterBoolean(parts) == SelectSeq(parts, LAMBDA p : p # << >>)

\* Array.prototype.join(sep), sep a one-token separator
RECURSIVE Join(_, _)
Join(parts, sep) ==
  IF Len(parts) = 0 THEN << >>
  ELSE IF Len(parts) = 1 THEN parts[1]
  ELSE parts[1] \o << sep >> \o Join(Tail(parts), sep)

\* Array.prototype.pop(): the last element, and the array without it
Last(parts) == parts[Len(parts)]
Front(parts) == SubSeq(parts, 1, Len(parts) - 1)

\* the value of a parameter the call gives no argument for: not a string
\* (an empty token occurs in no string)
Undefined == << "" >>

\* !path: the empty string and undefined are falsy
Falsy(path) == path = << >> \/ path = Undefined

\* --------------------------------------------------------------- Map model

\* a Map is the sequence of its entries [key, node] in insertion order
MapHas(m, k) == \E i \in 1..Len(m) : m[i].key = k

Null == 0

\* Map.prototype.get: the node stored under k, undefined (Null) when absent
MapGet(m, k) ==
  IF MapHas(m, k) THEN m[CHOOSE i \in 1..Len(m) : m[i].key = k].node ELSE Null

\* a set that puts a new key before the keys already there
MapSet_Prepend(m, k, v) ==
  IF MapHas(m, k)
  THEN [i \in 1..Len(m) |-> IF m[i].key = k THEN [key |-> k, node |-> v] ELSE m[i]]
  ELSE << [key |-> k, node |-> v] >> \o m

\* Map.prototype.set: replaces in place the value of an existing key, appends
\* a new key
MapSet(m, k, v) ==
  IF MapHas(m, k)
  THEN [i \in 1..Len(m) |-> IF m[i].key = k THEN [key |-> k, node |-> v] ELSE m[i]]
  ELSE Append(m, [key |-> k, node |-> v])

\* Map.prototype.delete
MapDelete(m, k) == SelectSeq(m, LAMBDA e : e.key # k)

\* Array.from(map.keys())
MapKeys(m) == [i \in 1..Len(m) |-> m[i].key]

\* ------------------------------------------------------ FileSystemNode

\* new FileSystemNode(name, type, content): children empty, parent null
FileSystemNode(name, type, content) ==
  [name |-> name, type |-> type, content |-> content,
   children |-> << >>, parent |-> Null]

\* the node this.root refers to: the first object the constructor allocates
root == 1

\* defaultStructure, flattened in the order createStructure visits it
\* (Object.entries order, depth first): the name, whether the value is a
\* string (a file), and the position in this list of the enclosing
\* directory (0: the top level, created under root)
defaultStructure == <<
  [name |-> "thecmdchallenge",         isFile |-> FALSE, within |-> 0],
  [name |-> "the-ultimate-joke.txt",   isFile |-> TRUE,  within |-> 1],
  [name |-> "small-name",              isFile |-> FALSE, within |-> 1],
  [name |-> "level1",                  isFile |-> FALSE, within |-> 3],
  [name |-> "level2",                  isFile |-> FALSE, within |-> 4],
  [name |-> "level3",                  isFile |-> FALSE, within |-> 5],
  [name |-> "level4",                  isFile |-> FALSE, within |-> 6],
  [name |-> "level5",                  isFile |-> FALSE, within |-> 7],
  [name |-> "level6",                  isFile |-> FALSE, within |-> 8],
  [name |-> "trophy.txt",              isFile |-> TRUE,  within |-> 9],
  [name |-> "funcode",                 isFile |-> FALSE, within |-> 1],
  [name |-> "kids.jpg",                isFile |-> TRUE,  within |-> 11],
  [name |-> "the-most-funny",          isFile |-> FALSE, within |-> 11],
  [name |-> "images",                  isFile |-> FALSE, within |-> 11],
  [name |-> "hello",                   isFile |-> FALSE, within |-> 14],
  [name |-> "boringfolder",            isFile |-> FALSE, within |-> 1],
  [name |-> "child",                   isFile |-> FALSE, within |-> 16],
  [name |-> "the-mostboring-text.txt", isFile |-> TRUE,  within |-> 17],
  [name |-> "kamehameha",              isFile |-> FALSE, within |-> 1],
  [name |-> "dragon-ball-jokes.md",    isFile |-> TRUE,  within |-> 19]
>>

\* the heap with one more node, linked under parentNode:
\*   node.parent = parentNode; parentNode.children.set(name, node)
\* a link that makes the new node its own parent
Link_OwnParent(nodes, parentNode, key, node) ==
  LET id == Len(nodes) + 1 IN
    [i \in 1..id |->
       IF i = id THEN [node EXCEPT !.parent = id]
       ELSE IF i = parentNode
            THEN [nodes[i] EXCEPT !.children = MapSet(@, key, id)]
            ELSE nodes[i]]

Link(nodes, parentNode, key, node) ==
  LET id == Len(nodes) + 1 IN
    [i \in 1..id |->
       IF i = id THEN [node EXCEPT !.parent = parentNode]
       ELSE IF i = parentNode
            THEN [nodes[i] EXCEPT !.children = MapSet(@, key, id)]
            ELSE nodes[i]]

\* createStructure over the first k entries of the structure; entry j
\* becomes node j + 1 (root is node 1)
RECURSIVE createStructure(_, _)
createStructure(structure, k) ==
  IF k = 0 THEN << FileSystemNode(<< Slash >>, "directory", "") >>
  ELSE LET e == structure[k]
           name == << e.name >>
       IN Link(createStructure(structure, k - 1), e.within + 1, name,
               FileSystemNode(name, IF e.isFile THEN "file" ELSE "directory", ""))

\* the constructor's result
initializeDefaultStructure == createStructure(defaultStructure, Len(defaultStructure))

MaxNodes == Len(defaultStructure) + 1 + MaxNew

\* ------------------------------------------------------------- state

VARIABLES
  nodes,          \* the heap: node id -> FileSystemNode (ids 1..Len(nodes))
  currentDir,     \* this.currentDir, a node id
  ret,            \* the last command and the value it returned
  libCurrentDir,  \* this.currentDir of the lib FileSystem `fs`
  libRet          \* the last call on `fs`: method, argument, returned value

vars == << nodes, currentDir, ret, libCurrentDir, libRet >>

\* the file system object the methods run on
FS == [nodes |-> nodes, currentDir |-> currentDir]

\* ------------------------------------------------- FileSystem (part_000)

\* resolvePath's loop over the remaining parts, standing on node current
RECURSIVE resolveWalk(_, _, _)
resolveWalk(fs, parts, current) ==
  IF parts = << >> THEN current
  ELSE LET part == Head(parts) IN
    IF part = << ".." >>
    THEN resolveWalk(fs, Tail(parts),
                     IF fs.nodes[current].parent # Null
                     THEN fs.nodes[current].parent ELSE current)
    ELSE IF part # << "." >>
    THEN LET next == MapGet(fs.nodes[current].children, part) IN
           IF next = Null THEN Null ELSE resolveWalk(fs, Tail(parts), next)
    ELSE resolveWalk(fs, Tail(parts), current)

\* resolvePath without the filter(Boolean) on the split parts
resolvePath_NoFilter(fs, path) ==
  IF Falsy(path) THEN fs.currentDir
  ELSE resolveWalk(fs, Split(path),
                   IF StartsWithSlash(path) THEN root ELSE fs.currentDir)

\* resolvePath(path): the node the path names, Null when there is none
resolvePath(fs, path) ==
  IF Falsy(path) THEN fs.currentDir
  ELSE resolveWalk(fs, FilterBoolean(Split(path)),
                   IF StartsWithSlash(path) THEN root ELSE fs.currentDir)

\* the statuses the commands return; the `${path}` / `${name}` the code
\* interpolates into a message is left out
\* (a message is a string of one run; success is the empty string)
OK == << >>
CdNoSuchDirectory == << "cd: No such directory" >>
CdNotADirectory == << "cd: Not a directory" >>
MkdirExists == << "mkdir: Directory already exists" >>
TouchExists == << "touch: File already exists" >>
RmMissingOperand == << "rm: missing operand" >>
RmNoSuchFile == << "rm: No such file or directory" >>
RmIsADirectory == << "rm: Is a directory" >>

\* the result of a method: the file system it leaves and the value it returns
Result(fs, value) == [fs |-> fs, ret |-> value, threw |-> FALSE]

\* a method that throws: `this` as the throw leaves it and the error thrown
Throw(fs, error) == [fs |-> fs, ret |-> error, threw |-> TRUE]

\* path.split of an undefined path
TypeError == << "TypeError: Cannot read properties of undefined (reading 'split')" >>

\* mkdirp's loop over the remaining parts, standing on node current
\* a walk without the `!current.children.has(part)` test: every part is set anew
RECURSIVE mkdirpWalk_NoHasCheck(_, _, _)
mkdirpWalk_NoHasCheck(ns, parts, current) ==
  IF parts = << >> THEN ns
  ELSE LET part == Head(parts)
           ns1 == Link(ns, current, part, FileSystemNode(part, "directory", ""))
       IN mkdirpWalk_NoHasCheck(ns1, Tail(parts), MapGet(ns1[current].children, part))

RECURSIVE mkdirpWalk(_, _, _)
mkdirpWalk(ns, parts, current) ==
  IF parts = << >> THEN ns
  ELSE LET part == Head(parts)
           ns1 == IF ~MapHas(ns[current].children, part)
                  THEN Link(ns, current, part, FileSystemNode(part, "directory", ""))
                  ELSE ns
       IN mkdirpWalk(ns1, Tail(parts), MapGet(ns1[current].children, part))

mkdirp(fs, path) ==
  IF path = Undefined THEN Throw(fs, TypeError)
  ELSE Result([fs EXCEPT !.nodes = mkdirpWalk(fs.nodes, FilterBoolean(Split(path)), fs.currentDir)],
              OK)

\* mkdir without `newDir.parent = this.currentDir`
mkdir_NoParentReference(fs, name) ==
  IF MapHas(fs.nodes[fs.currentDir].children, name)
  THEN Result(fs, MkdirExists)
  ELSE Result([fs EXCEPT !.nodes =
                 [Link(fs.nodes, fs.currentDir, name, FileSystemNode(name, "directory", ""))
                    EXCEPT ![Len(fs.nodes) + 1].parent = Null]],
              OK)

\* mkdir without the children.has(name) check
mkdir_NoExistsCheck(fs, name) ==
  Result([fs EXCEPT !.nodes = Link(fs.nodes, fs.currentDir, name,
                                   FileSystemNode(name, "directory", ""))],
         OK)

mkdir(fs, name) ==
  IF MapHas(fs.nodes[fs.currentDir].children, name)
  THEN Result(fs, MkdirExists)
  ELSE Result([fs EXCEPT !.nodes = Link(fs.nodes, fs.currentDir, name,
                                        FileSystemNode(name, "directory", ""))],
              OK)

\* cd without the `path === '/'` case and with a walk that always starts at
\* currentDir, as the lib resolvePath does
cd_RelativeOnly(fs, path) ==
  LET target == IF Falsy(path) THEN fs.currentDir
                ELSE resolveWalk(fs, FilterBoolean(Split(path)), fs.currentDir) IN
    IF target = Null THEN Result(fs, CdNoSuchDirectory)
    ELSE IF fs.nodes[target].type # "directory" THEN Result(fs, CdNotADirectory)
    ELSE Result([fs EXCEPT !.currentDir = target], OK)

cd(fs, path) ==
  IF path = << Slash >> THEN Result([fs EXCEPT !.currentDir = root], OK)
  ELSE LET target == resolvePath(fs, path) IN
    IF target = Null THEN Result(fs, CdNoSuchDirectory)
    ELSE IF fs.nodes[target].type # "directory" THEN Result(fs, CdNotADirectory)
    ELSE Result([fs EXCEPT !.currentDir = target], OK)

\* ls(path): the name of a file, the keys of a directory joined by '\n'
NewLine == "\n"

LsNoSuchFile == << "ls: No such file or directory" >>

ls(fs, path) ==
  LET target == IF ~Falsy(path) THEN resolvePath(fs, path) ELSE fs.currentDir IN
    IF target = Null THEN LsNoSuchFile
    ELSE IF fs.nodes[target].type = "file" THEN fs.nodes[target].name
    ELSE Join(MapKeys(fs.nodes[target].children), NewLine)

\* pwd's loop: walks the parent references up from current
RECURSIVE pwdWalk(_, _, _)
pwdWalk(fs, current, parts) ==
  IF current = Null THEN parts
  ELSE IF current = root THEN << << >> >> \o parts
  ELSE pwdWalk(fs, fs.nodes[current].parent, << fs.nodes[current].name >> \o parts)

\* pwd returning the bare name of currentDir
pwd_BareName(fs) == fs.nodes[fs.currentDir].name

pwd(fs) ==
  LET joined == Join(pwdWalk(fs, fs.currentDir, << >>), Slash) IN
    IF joined # << >> THEN joined ELSE << Slash >>

touch(fs, name) ==
  IF MapHas(fs.nodes[fs.currentDir].children, name)
  THEN Result(fs, TouchExists)
  ELSE Result([fs EXCEPT !.nodes = Link(fs.nodes, fs.currentDir, name,
                                        FileSystemNode(name, "file", ""))],
              OK)

\* the parent rm and rmdir look the name up in: the prefix before the last
\* '/' resolved, currentDir when that prefix is empty
removalParent(fs, path) ==
  LET parentPath == Join(Front(Split(path)), Slash) IN
    IF parentPath # << >> THEN resolvePath(fs, parentPath) ELSE fs.currentDir

\* parent.children.delete(name)
Unlink(fs, parent, name) ==
  [fs EXCEPT !.nodes[parent].children = MapDelete(@, name)]

\* rm without the `target.type === 'directory'` check
rm_NoDirectoryCheck(fs, path) ==
  IF Falsy(path) THEN Result(fs, RmMissingOperand)
  ELSE LET name == Last(Split(path))
           parent == removalParent(fs, path)
       IN IF parent = Null \/ ~MapHas(fs.nodes[parent].children, name)
          THEN Result(fs, RmNoSuchFile)
          ELSE Result(Unlink(fs, parent, name), OK)

rm(fs, path) ==
  IF Falsy(path) THEN Result(fs, RmMissingOperand)
  ELSE LET name == Last(Split(path))
           parent == removalParent(fs, path)
       IN IF parent = Null \/ ~MapHas(fs.nodes[parent].children, name)
          THEN Result(fs, RmNoSuchFile)
          ELSE IF fs.nodes[MapGet(fs.nodes[parent].children, name)].type = "directory"
          THEN Result(fs, RmIsADirectory)
          ELSE Result(Unlink(fs, parent, name), OK)

rmdir(fs, path) ==
  IF Falsy(path) THEN Result(fs, RmMissingOperand)
  ELSE LET name == Last(Split(path))
           parent == removalParent(fs, path)
       IN IF parent = Null \/ ~MapHas(fs.nodes[parent].children, name)
          THEN Result(fs, RmNoSuchFile)
          ELSE Result(Unlink(fs, parent, name), OK)

\* the pieces of a line of tree(), one token each; the box-drawing and emoji
\* characters of the source are written with ASCII stand-ins:
\* LastBranch for U+2514 U+2500 U+2500 ' ', Branch for U+251C U+2500 U+2500 ' ',
\* Bar for U+2502 and three spaces, Folder for U+1F4C1, Page for U+1F4C4
LastBranch == "+-- "
Branch == "|-- "
Blank == "    "
Bar == "|   "
Folder == "[directory]"
Page == "[file]"
Space == " "

\* tree(node, prefix, isLast): the line of node, then, for a directory, the
\* lines of its children in the order of children.values()
RECURSIVE tree(_, _, _, _)
RECURSIVE treeForEach(_, _, _, _)
tree(fs, node, prefix, isLast) ==
  LET nodeType == IF fs.nodes[node].type = "directory" THEN Folder ELSE Page
      connector == IF isLast THEN LastBranch ELSE Branch
      result == prefix \o << connector, nodeType, Space >>
                  \o (IF node = root THEN << Slash >> ELSE fs.nodes[node].name)
                  \o << NewLine >>
  IN IF fs.nodes[node].type = "directory"
     THEN result \o treeForEach(fs, fs.nodes[node].children, 1,
                                 prefix \o << IF isLast THEN Blank ELSE Bar >>)
     ELSE result

\* children.forEach from position index on: isLastChild is
\* index === children.length - 1 (positions counted from 0 there)
treeForEach(fs, children, index, newPrefix) ==
  IF index > Len(children) THEN << >>
  ELSE tree(fs, children[index].node, newPrefix, index = Len(children))
         \o treeForEach(fs, children, index + 1, newPrefix)

\* ------------------------------------------------------------- actions

InitFS ==
  /\ nodes = initializeDefaultStructure
  /\ currentDir = root
  /\ ret = [op |-> "new", value |-> OK, threw |-> FALSE]

\* a command ran: the file system and the returned value it left
Ran(op, r) ==
  /\ Len(r.fs.nodes) <= MaxNodes
  /\ nodes' = r.fs.nodes
  /\ currentDir' = r.fs.currentDir
  /\ ret' = [op |-> op, value |-> r.ret, threw |-> r.threw]
  /\ UNCHANGED << libCurrentDir, libRet >>

\* the arguments a path command is called with: a string, or none
Arguments == Paths \cup {Undefined}

Cd == \E path \in Arguments : Ran("cd", cd(FS, path))

Mkdir == \E name \in Names : Ran("mkdir", mkdir(FS, name))

Mkdirp == \E path \in Arguments : Ran("mkdirp", mkdirp(FS, path))

Touch == \E name \in Names : Ran("touch", touch(FS, name))

Rm == \E path \in Arguments : Ran("rm", rm(FS, path))

Rmdir == \E path \in Arguments : Ran("rmdir", rmdir(FS, path))

Pwd == Ran("pwd", Result(FS, pwd(FS)))

Ls == \E path \in Arguments : Ran("ls", Result(FS, ls(FS, path)))

\* tree() with its default arguments
Tree == Ran("tree", Result(FS, tree(FS, currentDir, << >>, TRUE)))

Next == Cd \/ Mkdir \/ Mkdirp \/ Touch \/ Rm \/ Rmdir \/ Pwd \/ Ls \/ Tree

\* ---------------------------------------- FileSystem (lib/fileSystem.js)

\* new FileSystemNode(name, type): no parent field; content null
libFileSystemNode(name, type) ==
  [name |-> name, type |-> type, children |-> << >>, content |-> "null"]

libIsDirectory(node) == node.type = "directory"

libIsFile(node) == node.type = "file"

\* initialStructure, flattened like defaultStructure above; a file carries
\* its content
initialStructure == <<
  [name |-> "thecmdchallenge", isFile |-> FALSE, within |-> 0, value |-> ""],
  [name |-> "home",            isFile |-> FALSE, within |-> 1, value |-> ""],
  [name |-> "user",            isFile |-> FALSE, within |-> 2, value |-> ""],
  [name |-> "documents",       isFile |-> FALSE, within |-> 3, value |-> ""],
  [name |-> "file1.txt",       isFile |-> TRUE,  within |-> 4, value |-> "contenido del archivo 1"],
  [name |-> "file2.txt",       isFile |-> TRUE,  within |-> 4, value |-> "contenido del archivo 2"],
  [name |-> "downloads",       isFile |-> FALSE, within |-> 3, value |-> ""]
>>

\* buildStructure over the first k entries: parent.children.set(name, node),
\* no parent reference is stored
RECURSIVE buildStructure(_, _)
buildStructure(structure, k) ==
  IF k = 0 THEN << libFileSystemNode(<< Slash >>, "directory") >>
  ELSE LET e == structure[k]
           ns == buildStructure(structure, k - 1)
           id == Len(ns) + 1
           node == IF e.isFile
                   THEN [libFileSystemNode(<< e.name >>, "file") EXCEPT !.content = e.value]
                   ELSE libFileSystemNode(<< e.name >>, "directory")
       IN [i \in 1..id |->
             IF i = id THEN node
             ELSE IF i = e.within + 1
                  THEN [ns[i] EXCEPT !.children = MapSet(@, << e.name >>, id)]
                  ELSE ns[i]]

\* the tree of `fs` after fs.initializeDefaultStructure(initialStructure);
\* no method of the lib FileSystem changes it afterwards
libNodes == buildStructure(initialStructure, Len(initialStructure))

\* resolvePath's loop: a part is looked up only while the walk stands on a
\* directory, and is skipped otherwise
RECURSIVE libResolveWalk(_, _)
libResolveWalk(parts, target) ==
  IF parts = << >> THEN target
  ELSE IF libIsDirectory(libNodes[target])
  THEN LET next == MapGet(libNodes[target].children, Head(parts)) IN
         IF next = Null THEN Null ELSE libResolveWalk(Tail(parts), next)
  ELSE libResolveWalk(Tail(parts), target)

libResolvePath(cur, path) == libResolveWalk(FilterBoolean(Split(path)), cur)

\* cd(path): the new currentDir and the boolean returned
libCd(cur, path) ==
  LET target == libResolvePath(cur, path) IN
    IF target # Null /\ libIsDirectory(libNodes[target])
    THEN [currentDir |-> target, ret |-> TRUE]
    ELSE [currentDir |-> cur, ret |-> FALSE]

libLs(cur) == IF cur = Null THEN << >> ELSE MapKeys(libNodes[cur].children)

libPwd(cur) == libNodes[cur].name

\* the runs the lib methods are called with
LibRuns == {".", "..", "thecmdchallenge", "home", "user", "documents", "file1.txt"}

LibPaths == Strings(LibRuns, MaxLen)

InitLib ==
  /\ libCurrentDir = root
  /\ libRet = [op |-> "new", arg |-> << >>, value |-> TRUE]

Init == InitFS /\ InitLib

LibCd ==
  \E path \in LibPaths :
    /\ libCurrentDir' = libCd(libCurrentDir, path).currentDir
    /\ libRet' = [op |-> "cd", arg |-> path, value |-> libCd(libCurrentDir, path).ret]
    /\ UNCHANGED << nodes, currentDir, ret >>

LibLs ==
  /\ libRet' = [op |-> "ls", arg |-> << >>, value |-> libLs(libCurrentDir)]
  /\ UNCHANGED << nodes, currentDir, ret, libCurrentDir >>

LibPwd ==
  /\ libRet' = [op |-> "pwd", arg |-> << >>, value |-> libPwd(libCurrentDir)]
  /\ UNCHANGED << nodes, currentDir, ret, libCurrentDir >>

NextLib == LibCd \/ LibLs \/ LibPwd

\* ----------------------------------------------------- specifications

\* the commands of part_000 on its singleton fileSystem
Spec == Init /\ [][Next]_vars

\* the calls on the lib instance `fs`
SpecLib == Init /\ [][NextLib]_vars

\* ------------------------------------------------------------ properties

NodeIds == 1..Len(nodes)

\* the nodes stored in the children mapping of node n
Kids(ns, n) == { ns[n].children[i].node : i \in 1..Len(ns[n].children) }

\* the nodes reachable from the nodes of S by following children mappings
RECURSIVE ReachableFrom(_, _)
ReachableFrom(ns, S) ==
  LET T == S \cup UNION { Kids(ns, n) : n \in S } IN
    IF T = S THEN S ELSE ReachableFrom(ns, T)

Reachable == ReachableFrom(nodes, {root})

\* the number of nodes the constructor leaves
SeedSize == Len(initializeDefaultStructure)

\* C1: currentDir is always a directory node reachable from root by
\* following children mappings (no rm/rmdir leaves the cursor on an unlinked
\* node).
C1_CursorReachable ==
  /\ nodes[currentDir].type = "directory"
  /\ currentDir \in Reachable

\* C2: every node of kind file has an empty children mapping.
C2_FilesHaveNoChildren ==
  \A n \in NodeIds : nodes[n].type = "file" => nodes[n].children = << >>

\* the places (mapping owner, position) at which node n is stored
Places(n) ==
  { dp \in NodeIds \X (0..Len(nodes)) :
      /\ dp[2] \in 1..Len(nodes[dp[1]].children)
      /\ nodes[dp[1]].children[dp[2]].node = n }

\* C3: for every node D reachable from root and every entry k -> c of
\* D.children, c.parent is D and c.name is k; sibling keys are unique; every
\* reachable node but root is stored in exactly one children mapping, once;
\* root has no parent.
C3_ParentLinks ==
  /\ nodes[root].parent = Null
  /\ \A d \in Reachable :
       LET ch == nodes[d].children IN
         /\ \A i \in 1..Len(ch) :
              /\ nodes[ch[i].node].parent = d
              /\ nodes[ch[i].node].name = ch[i].key
         /\ \A i, j \in 1..Len(ch) : ch[i].key = ch[j].key => i = j
  /\ \A n \in Reachable \ {root} : Cardinality(Places(n)) = 1

\* C3's case: a command has just created a node, and it is in the tree
C3_Witness ==
  /\ ret.op \in {"mkdir", "touch", "mkdirp"}
  /\ Len(nodes) > SeedSize
  /\ Len(nodes) \in Reachable
  /\ currentDir # root

\* the segments of an absolute path after its leading '/'
SegmentsAfterRoot(P) == Tail(Split(P))

\* P has a leading '/', no '.' segment, no empty segment and no trailing slash
NormalizedAbsolute(P) ==
  /\ StartsWithSlash(P)
  /\ \A i \in 1..Len(SegmentsAfterRoot(P)) :
       /\ SegmentsAfterRoot(P)[i] # << >>
       /\ SegmentsAfterRoot(P)[i] # << "." >>

NoDotDotSegment(P) ==
  \A i \in 1..Len(Split(P)) : Split(P)[i] # << ".." >>

\* when P resolves to a directory, cd(P) succeeds and the pwd() that follows
\* returns P
CdThenPwdReturns(P) ==
  LET target == resolvePath(FS, P) IN
    (target # Null /\ nodes[target].type = "directory") =>
      LET r == cd(FS, P) IN r.ret = OK /\ pwd(r.fs) = P

\* C4 as stated: for every normalized absolute path P (leading '/', no '.'
\* segment, no empty segment, no trailing slash) that resolves to a
\* directory, cd(P) succeeds and the following pwd() returns exactly P.
C4_CdPwdRoundTrip ==
  \A P \in QueryPaths : NormalizedAbsolute(P) => CdThenPwdReturns(P)

\* C4 amended: the same for every such P that has no '..' segment either.
C4_CdPwdRoundTripNoDotDot ==
  \A P \in QueryPaths :
    (NormalizedAbsolute(P) /\ NoDotDotSegment(P)) => CdThenPwdReturns(P)

\* C4's case: pwd() has just returned the normalized absolute path of a
\* directory two levels below root, the cursor having been moved there
C4_Witness ==
  /\ ret.op = "pwd"
  /\ Len(ret.value) = 4
  /\ NormalizedAbsolute(ret.value) /\ NoDotDotSegment(ret.value)
  /\ resolvePath(FS, ret.value) = currentDir

\* the walk of resolvePath(path) stands on a file node while parts remain
StandsOnFile(fs, path) ==
  LET parts == FilterBoolean(Split(path))
      start == IF StartsWithSlash(path) THEN root ELSE fs.currentDir
  IN \E k \in 0..(Len(parts) - 1) :
       LET at == resolveWalk(fs, SubSeq(parts, 1, k), start) IN
         at # Null /\ fs.nodes[at].type = "file"

\* C5: resolvePath returns not-found for every path whose walk stands on a
\* file node while segments remain.
C5_FileSegmentUnresolvable ==
  \A p \in QueryPaths :
    (p # << >> /\ StandsOnFile(FS, p)) => resolvePath(FS, p) = Null

\* the paths the properties of the lib FileSystem quantify over
LibQueryPaths == Strings(LibRuns, MaxQueryLen)

\* a path made of '..' segments only
OnlyDotDot(p) ==
  LET parts == FilterBoolean(Split(p)) IN
    parts # << >> /\ \A i \in 1..Len(parts) : parts[i] = << ".." >>

\* C6: a path made only of '..' segments resolves to a directory, never to
\* not-found, and to root when currentDir is root (lib FileSystem).
C6_DotDotNeverFails ==
  \A p \in LibQueryPaths :
    OnlyDotDot(p) =>
      LET n == libResolvePath(libCurrentDir, p) IN
        /\ n # Null
        /\ libIsDirectory(libNodes[n])
        /\ libCurrentDir = root => n = root

\* p with one '.' segment inserted: in front of a relative path, behind any
\* '/', or at the end
InsertDot(p) ==
  (IF StartsWithSlash(p) THEN {}
   ELSE IF p = << >> THEN { << "." >> } ELSE { << ".", Slash >> \o p })
  \cup
  { SubSeq(p, 1, i) \o << "." >> \o (IF i = Len(p) THEN << >> ELSE << Slash >>)
      \o SubSeq(p, i + 1, Len(p)) : i \in { j \in 1..Len(p) : p[j] = Slash } }
  \cup
  (IF p # << >> /\ p[Len(p)] # Slash THEN { p \o << Slash, "." >> } ELSE {})

\* p with one of its '/' doubled
DoubleSlash(p) ==
  { SubSeq(p, 1, i) \o << Slash >> \o SubSeq(p, i + 1, Len(p)) :
      i \in { j \in 1..Len(p) : p[j] = Slash } }

TrailingSlash(p) == p \o << Slash >>

\* every path of the set qs resolves like p
AllResolveLike(p, qs) ==
  LET target == resolvePath(FS, p) IN \A q \in qs : resolvePath(FS, q) = target

\* C7 as stated: for every path p, inserting a '.' segment, doubling a '/'
\* or appending a trailing '/' resolves to the same result as p, and
\* resolvePath('.') is currentDir.
C7_DotAndEmptySegmentsInert ==
  /\ \A p \in QueryPaths :
       AllResolveLike(p, InsertDot(p) \cup DoubleSlash(p) \cup { TrailingSlash(p) })
  /\ resolvePath(FS, << "." >>) = currentDir

\* C7 amended: the same, the trailing '/' being appended to non-empty paths
\* only.
C7_DotAndEmptySegmentsInertNonEmpty ==
  /\ \A p \in QueryPaths :
       AllResolveLike(p, InsertDot(p) \cup DoubleSlash(p)
                           \cup (IF p # << >> THEN { TrailingSlash(p) } ELSE {}))
  /\ resolvePath(FS, << "." >>) = currentDir

\* C7's case: the cursor has been moved below root, where a relative path
\* and an absolute path resolve to nodes, and a path resolves to not-found
C7_Witness ==
  /\ ret.op = "cd" /\ ret.value = OK
  /\ currentDir # root
  /\ \E p, q, r \in Paths :
       /\ p # << >> /\ ~StartsWithSlash(p)
       /\ resolvePath(FS, p) \notin {Null, currentDir, root}
       /\ StartsWithSlash(q) /\ resolvePath(FS, q) \notin {Null, root}
       /\ resolvePath(FS, r) = Null

\* C8: cd reports a path that does not resolve and a path that resolves to
\* a file by two different statuses, neither of them the success status,
\* and leaves currentDir unchanged; for a path that resolves to a directory
\* it succeeds and currentDir becomes that node (lib FileSystem).
C8_CdStatuses ==
  \A p, q \in LibPaths \ { << Slash >> } :
    LET tp == libResolvePath(libCurrentDir, p)
        tq == libResolvePath(libCurrentDir, q)
        rp == libCd(libCurrentDir, p)
        rq == libCd(libCurrentDir, q)
    IN /\ tp = Null => rp.currentDir = libCurrentDir
       /\ (tp # Null /\ libIsFile(libNodes[tp])) => rp.currentDir = libCurrentDir
       /\ (tp # Null /\ libIsDirectory(libNodes[tp])) => rp.currentDir = tp
       /\ (tp = Null /\ tq # Null /\ libIsFile(libNodes[tq])) =>
            /\ rp.ret # rq.ret
            /\ rp.ret # libCd(libCurrentDir, << >>).ret
            /\ rq.ret # libCd(libCurrentDir, << >>).ret

\* the named child rm(path) / rmdir(path) looks at, Null when there is none
removalTarget(fs, path) ==
  IF path = << >> \/ removalParent(fs, path) = Null THEN Null
  ELSE MapGet(fs.nodes[removalParent(fs, path)].children, Last(Split(path)))

\* C9: when currentDir already has a child called name, mkdir(name) and
\* touch(name) return the already-exists status and leave the file system
\* as it is, and ls() lists name exactly once.
C9_ExistingNameRejected ==
  \A name \in Names :
    MapHas(nodes[currentDir].children, name) =>
      /\ mkdir(FS, name) = Result(FS, MkdirExists)
      /\ touch(FS, name) = Result(FS, TouchExists)
      /\ Cardinality({ i \in 1..Len(nodes[currentDir].children) :
                         nodes[currentDir].children[i].key = name }) = 1
      /\ ls(mkdir(FS, name).fs, << >>) = ls(FS, << >>)
      /\ ls(touch(FS, name).fs, << >>) = ls(FS, << >>)

\* C9's case: touch has just been refused on the name of an existing
\* directory that has children
C9_Witness ==
  /\ ret.op = "touch" /\ ret.value = TouchExists
  /\ \E name \in Names :
       LET c == MapGet(nodes[currentDir].children, name) IN
         c # Null /\ nodes[c].type = "directory" /\ nodes[c].children # << >>

\* the nodes some children mapping of fs1 holds and the same mapping of fs2
\* does not
Unlinked(fs1, fs2) ==
  IF fs2.nodes = fs1.nodes THEN {}
  ELSE UNION { Kids(fs1.nodes, d) \ Kids(fs2.nodes, d) : d \in 1..Len(fs1.nodes) }

\* C10: rm(path) on a named child that is a directory returns the
\* is-a-directory status and leaves tree and currentDir unchanged; rm never
\* unlinks a directory node.
C10_RmRefusesDirectories ==
  \A p \in QueryPaths :
    LET t == removalTarget(FS, p)
        r == rm(FS, p)
    IN /\ (t # Null /\ nodes[t].type = "directory") => r = Result(FS, RmIsADirectory)
       /\ r.fs.currentDir = currentDir
       /\ \A n \in Unlinked(FS, r.fs) : nodes[n].type = "file"

\* C10's case: rm has just been refused on a directory
C10_Witness ==
  /\ ret.op = "rm" /\ ret.value = RmIsADirectory
  /\ currentDir # root

\* C11: after touch(t) succeeds in currentDir, rm(t) returns the empty
\* success status and removes exactly the entry t from currentDir.children
\* (every other node and currentDir unchanged), ls() no longer contains t,
\* and a second rm(t) returns the not-found status and changes nothing.
C11_TouchThenRm ==
  \A t \in Names :
    LET r1 == touch(FS, t) IN
      r1.ret = OK =>
        LET r2 == rm(r1.fs, t)
            r3 == rm(r2.fs, t)
        IN /\ r2.ret = OK
           /\ r2.fs.currentDir = currentDir
           /\ r2.fs.nodes = [r1.fs.nodes EXCEPT ![currentDir].children = MapDelete(@, t)]
           /\ ~MapHas(r2.fs.nodes[currentDir].children, t)
           /\ ls(r2.fs, << >>) = ls(FS, << >>)
           /\ r3 = Result(r2.fs, RmNoSuchFile)

\* C12: for every name x that mkdir(x) accepts in currentDir = D, the
\* sequence mkdir(x); cd(x); cd('..') ends with currentDir = D.
C12_MkdirCdBack ==
  \A x \in Names :
    LET r1 == mkdir(FS, x) IN
      r1.ret = OK =>
        LET r2 == cd(r1.fs, x)
            r3 == cd(r2.fs, << ".." >>)
        IN r3.fs.currentDir = currentDir

\* the directory of the lib tree whose children mapping stores node n
libOwner(n) == CHOOSE d \in 1..Len(libNodes) : n \in Kids(libNodes, d)

\* the names on the way from root's child down to node n of the lib tree
RECURSIVE libChain(_)
libChain(n) ==
  IF n = root THEN << >> ELSE Append(libChain(libOwner(n)), libNodes[n].name)

\* the absolute path made of the given names: '/' alone, or '/' before each
AbsolutePath(names) ==
  IF names = << >> THEN << Slash >> ELSE Join(<< << >> >> \o names, Slash)

\* C13: pwd() returns '/' when currentDir is root, and otherwise '/'
\* followed by the names of the directories from root's child down to
\* currentDir joined by '/', never the bare directory name.
C13_PwdAbsolute ==
  libPwd(libCurrentDir) = AbsolutePath(libChain(libCurrentDir))

\* the names of the nodes stored in the children mapping of node d, in the
\* order of the mapping
ChildNames(ns, d) ==
  [i \in 1..Len(ns[d].children) |-> ns[ns[d].children[i].node].name]

\* ls of a path that stands for a directory lists the names of its children
\* in the order of the mapping, and an empty directory gives the empty
\* result; the lib ls() lists the entries of initialStructure in their order
LsListsChildren ==
  /\ \A p \in QueryPaths :
       LET target == IF p = << >> THEN currentDir ELSE resolvePath(FS, p) IN
         (target # Null /\ nodes[target].type = "directory") =>
           /\ ls(FS, p) = Join(ChildNames(nodes, target), NewLine)
           /\ ls(FS, p) # LsNoSuchFile
           /\ nodes[target].children = << >> => ls(FS, p) = << >>
  /\ \A d \in 1..Len(libNodes) :
       libLs(d) =
         LET within == SelectSeq(initialStructure, LAMBDA e : e.within = d - 1)
         IN [i \in 1..Len(within) |-> << within[i].name >>]

\* a command leaves the keys it keeps in their order, bound to the same
\* nodes, and puts the keys it adds after them
KeysKeepInsertionOrder ==
  \/ nodes' = nodes
  \/ \A d \in NodeIds :
       LET before == nodes[d].children
           after == nodes'[d].children
       IN \/ after = before
          \/ /\ MapKeys(after) =
                  SelectSeq(MapKeys(before), LAMBDA k : MapHas(after, k))
                    \o SelectSeq(MapKeys(after), LAMBDA k : ~MapHas(before, k))
             /\ \A i \in 1..Len(after) :
                  MapHas(before, after[i].key) =>
                    MapGet(before, after[i].key) = after[i].node

\* C14: ls on a directory returns the names of exactly its current children
\* in the order in which they were inserted (a name removed and later
\* re-created appears at the end), and returns an empty result, not a
\* not-found status, when the directory has no children.
C14_LsInsertionOrder == []LsListsChildren /\ [][KeysKeepInsertionOrder]_vars

\* C14's case: ls() has just listed thecmdchallenge, in which the first
\* name, the-ultimate-joke.txt, was removed and created again: it is listed
\* last
C14_Witness ==
  /\ ret.op = "ls"
  /\ currentDir = 2
  /\ ret.value = ls(FS, << >>)
  /\ Last(nodes[2].children).key = << "the-ultimate-joke.txt" >>
  /\ Last(nodes[2].children).node > SeedSize
  /\ Last(ret.value) = "the-ultimate-joke.txt"

\* the lines C18 describes for the subtree rooted at node: the line of node,
\* then the lines of every child in the order of the children mapping
RECURSIVE SubtreeLines(_, _, _)
RECURSIVE ChildrenLines(_, _, _)
SubtreeLines(node, prefix, isLast) ==
  prefix \o << IF isLast THEN LastBranch ELSE Branch,
               IF nodes[node].type = "directory" THEN Folder ELSE Page,
               Space >>
    \o (IF node = root THEN << Slash >> ELSE nodes[node].name) \o << NewLine >>
    \o ChildrenLines(nodes[node].children, 1,
                     prefix \o << IF isLast THEN Blank ELSE Bar >>)

ChildrenLines(children, index, newPrefix) ==
  IF index > Len(children) THEN << >>
  ELSE SubtreeLines(children[index].node, newPrefix, index = Len(children))
         \o ChildrenLines(children, index + 1, newPrefix)

\* the number of lines of a tree() output
LineCount(out) == Len(SelectSeq(out, LAMBDA token : token = NewLine))

\* C18: tree(node) emits exactly one line per node of the subtree rooted at
\* node, in depth-first pre-order with children in insertion order; a child
\* line uses the last-branch connector exactly when it is the last child of
\* its parent and the branch connector otherwise, its prefix extends the
\* parent's prefix by four spaces when the parent was a last sibling and by
\* the bar otherwise, and root is printed as '/'.
C18_TreeOneLinePerNode ==
  \A node \in NodeIds :
    /\ tree(FS, node, << >>, TRUE) = SubtreeLines(node, << >>, TRUE)
    /\ LineCount(tree(FS, node, << >>, TRUE))
         = Cardinality(ReachableFrom(nodes, {node}))

\* C15: no operation ever raises: each of cd, ls, pwd, mkdir, mkdirp, touch,
\* rm, rmdir and tree, called with any string argument or with an empty or
\* absent argument, completes and returns a value instead of throwing.
C15_NoOperationThrows ==
  /\ ~ret.threw
  /\ \A path \in Arguments :
       /\ ~cd(FS, path).threw
       /\ ~mkdirp(FS, path).threw
       /\ ~rm(FS, path).threw
       /\ ~rmdir(FS, path).threw
  /\ \A name \in Names :
       /\ ~mkdir(FS, name).threw
       /\ ~touch(FS, name).threw

\* the nodes met from node current by looking the parts up as keys, one
\* after the other, as far as they exist
RECURSIVE Visited(_, _, _)
Visited(ns, parts, current) ==
  IF parts = << >> \/ ~MapHas(ns[current].children, Head(parts)) THEN << >>
  ELSE LET next == MapGet(ns[current].children, Head(parts)) IN
         << next >> \o Visited(ns, Tail(parts), next)

\* mkdirp(path) from the present state: success, the cursor kept, the
\* existing nodes of the path reused, every node there before kept with
\* the children it had (new ones come after them), one new empty directory
\* per missing segment, and nothing changed by a second call
MkdirpReusesAndCreates(path) ==
  LET parts == FilterBoolean(Split(path))
      r1 == mkdirp(FS, path)
      r2 == mkdirp(r1.fs, path)
      before == Visited(nodes, parts, currentDir)
      after == Visited(r1.fs.nodes, parts, currentDir)
  IN /\ r1.ret = OK /\ ~r1.threw
     /\ r1.fs.currentDir = currentDir
     /\ Len(after) = Len(parts)
     /\ SubSeq(after, 1, Len(before)) = before
     /\ Len(r1.fs.nodes) = Len(nodes) + Len(parts) - Len(before)
     /\ \A n \in NodeIds :
          /\ [r1.fs.nodes[n] EXCEPT !.children = nodes[n].children] = nodes[n]
          /\ SubSeq(r1.fs.nodes[n].children, 1, Len(nodes[n].children))
               = nodes[n].children
     /\ \A i \in (Len(before) + 1)..Len(parts) :
          /\ after[i] > Len(nodes)
          /\ r1.fs.nodes[after[i]].type = "directory"
          /\ r1.fs.nodes[after[i]].name = parts[i]
          /\ r1.fs.nodes[after[i]].content = ""
          /\ r1.fs.nodes[after[i]].children
               = IF i = Len(parts) THEN << >>
                 ELSE << [key |-> parts[i + 1], node |-> after[i + 1]] >>
     /\ r2 = r1

\* C16: mkdirp(path) always returns success and is idempotent: existing
\* nodes along the path are reused with their children intact, only missing
\* segments are created as directories, a second mkdirp(path) from the same
\* currentDir leaves the tree exactly as the first call left it, and mkdirp
\* never changes currentDir.
C16_MkdirpIdempotent == \A path \in Paths : MkdirpReusesAndCreates(path)

\* C16's case: mkdirp has just reused the existing thecmdchallenge and
\* created the missing segment under it, the cursor still on root
C16_Witness ==
  /\ ret = [op |-> "mkdirp", value |-> OK, threw |-> FALSE]
  /\ currentDir = root
  /\ Len(nodes) = SeedSize + 1
  /\ nodes[Len(nodes)].type = "directory"
  /\ nodes[Len(nodes)].parent = 2
  /\ Len(nodes) \in Kids(nodes, 2)

\* C17: from every reachable state, including one in which currentDir has
\* been unlinked from the tree by rmdir, cd('/') returns success and sets
\* currentDir to root (nothing else changes), and the command can be taken.
C17_CdSlashReturnsToRoot ==
  /\ cd(FS, << Slash >>) = Result([FS EXCEPT !.currentDir = root], OK)
  /\ ENABLED Ran("cd", cd(FS, << Slash >>))

\* C17's case: rmdir has just unlinked the directory the cursor stands in
C17_Witness ==
  /\ ret.op = "rmdir"
  /\ ret.value = OK
  /\ currentDir # root
  /\ currentDir \notin Reachable
  /\ cd(FS, << Slash >>).fs.currentDir = root

\* C19: whenever rm(path) or rmdir(path) returns success, the node it
\* unlinked is the node resolvePath(path) returned immediately before the
\* call, for every non-empty path (absolute paths issued from a non-root
\* currentDir, paths with a trailing '/', and paths containing '.' or '..'
\* included).
C19_RemovalFollowsResolvePath ==
  \A p \in QueryPaths \ {<< >>} :
    /\ rm(FS, p).ret = OK => Unlinked(FS, rm(FS, p).fs) = {resolvePath(FS, p)}
    /\ rmdir(FS, p).ret = OK => Unlinked(FS, rmdir(FS, p).fs) = {resolvePath(FS, p)}

\* the node k parent references above node n, Null once the chain has ended
RECURSIVE Up(_, _)
Up(n, k) == IF k = 0 \/ n = Null THEN n ELSE Up(nodes[n].parent, k - 1)

\* the parent chain of node n reaches root, which has no parent, in fewer
\* steps than there are nodes (so no node occurs twice on it)
ChainEndsAtRoot(n) == \E k \in 0..(Len(nodes) - 1) : Up(n, k) = root

\* C20: the parent chain starting at currentDir is finite, acyclic and ends
\* at root, also when currentDir has been unlinked from its parent's
\* children, so the loop of pwd() terminates; every node stored in a
\* children mapping has the owner of the mapping as parent and a chain that
\* ends at root, so the descent of tree() meets no node twice and
\* terminates.
C20_ParentChainEndsAtRoot ==
  /\ nodes[root].parent = Null
  /\ ChainEndsAtRoot(currentDir)
  /\ \A d \in NodeIds :
       \A c \in Kids(nodes, d) : nodes[c].parent = d /\ ChainEndsAtRoot(c)

\* C20's case: pwd() or tree() has just returned with the cursor on a
\* directory that rmdir unlinked from the tree
C20_Witness ==
  /\ ret.op \in {"pwd", "tree"}
  /\ ~ret.threw
  /\ ret.value # << >>
  /\ currentDir # root
  /\ currentDir \notin Reachable

====
